---- MODULE Spec2Model ----
(***************************************************************************)
(* Model of bmschain_gui_serial_to_csv.py: the frame splitter, the frame   *)
(* parser, the CSV row emitter, the serial capture generator and main().   *)
(*                                                                         *)
(* A Python str is a sequence of one-character strings.  A Python float is *)
(* a record [cls, num, scale]: the decimal num / 10^scale in lowest form   *)
(* (cls = "fin"), or cls = "inf" / "nan".  List indices are 0-based as in  *)
(* the source: tokens[index] of the source is tokens[index + 1] here.      *)
(***************************************************************************)
EXTENDS Integers, Sequences, FiniteSets, TLC

(***************************************************************************)
(* Program constants                                                       *)
(***************************************************************************)
CELL_COUNT == 14

DEFAULT_FAULT_COUNT == 187

FRAME_END_MARKER == <<"E", "N", "D", "D", "a", "t", "a">>

\* chunk_chars default of iter_frames_from_text_file
CHUNK_CHARS == 65536

(***************************************************************************)
(* Strings                                                                 *)
(***************************************************************************)
DigitChars == <<"0", "1", "2", "3", "4", "5", "6", "7", "8", "9">>

IsDigit(c) == \E i \in 1..10 : DigitChars[i] = c

DigitVal(c) == (CHOOSE i \in 1..10 : DigitChars[i] = c) - 1

\* str.strip() with no argument strips these
Whitespace == {" ", "\t", "\n", "\r"}

BOM == "\\ufeff"

\* str.strip()
StrStrip(s) ==
    LET keep == {i \in 1..Len(s) : s[i] \notin Whitespace}
    IN  IF keep = {} THEN <<>>
        ELSE LET lo == CHOOSE i \in keep : \A j \in keep : i <= j
                 hi == CHOOSE i \in keep : \A j \in keep : i >= j
             IN  SubSeq(s, lo, hi)

\* str.replace(c, "") for a one-character c
RemoveChar(s, c) == SelectSeq(s, LAMBDA x : x # c)

\* str.split(c) for a one-character c: always at least one field.  The halves
\* are split apart and the field the cut went through is joined again.
RECURSIVE SplitChar(_, _)
SplitChar(s, c) ==
    IF Len(s) = 0 THEN << <<>> >>
    ELSE IF Len(s) = 1 THEN (IF s[1] = c THEN << <<>>, <<>> >> ELSE <<s>>)
    ELSE LET m == Len(s) \div 2
             l == SplitChar(SubSeq(s, 1, m), c)
             r == SplitChar(SubSeq(s, m + 1, Len(s)), c)
         IN  SubSeq(l, 1, Len(l) - 1) \o <<l[Len(l)] \o r[1]>> \o Tail(r)

\* marker in buffer
Contains(buffer, marker) ==
    \E i \in 1..(Len(buffer) - Len(marker) + 1) :
        SubSeq(buffer, i, i + Len(marker) - 1) = marker

\* buffer.split(marker, 1) when marker in buffer: <<before, after>>
SplitOnce(buffer, marker) ==
    LET hits == {i \in 1..(Len(buffer) - Len(marker) + 1) :
                    SubSeq(buffer, i, i + Len(marker) - 1) = marker}
        at == CHOOSE i \in hits : \A j \in hits : i <= j
    IN  <<SubSeq(buffer, 1, at - 1),
          SubSeq(buffer, at + Len(marker), Len(buffer))>>

(***************************************************************************)
(* Numeric literals.  int(token) and float(token) on the characters the    *)
(* inputs are drawn from: sign, decimal digits, ".", and the words inf and *)
(* nan.                                                                    *)
(***************************************************************************)
RECURSIVE DigitsToNat(_)
DigitsToNat(ds) ==
    IF ds = <<>> THEN 0
    ELSE 10 * DigitsToNat(SubSeq(ds, 1, Len(ds) - 1)) + DigitVal(ds[Len(ds)])

AllDigits(ds) == \A i \in 1..Len(ds) : IsDigit(ds[i])

Unsigned(token) ==
    IF Len(token) > 0 /\ token[1] \in {"+", "-"} THEN Tail(token) ELSE token

SignOf(token) == IF Len(token) > 0 /\ token[1] = "-" THEN -1 ELSE 1

\* int(token): [ok |-> FALSE] stands for ValueError
PyInt(token) ==
    LET body == Unsigned(token)
    IN  IF Len(body) > 0 /\ AllDigits(body)
        THEN [ok |-> TRUE, value |-> SignOf(token) * DigitsToNat(body)]
        ELSE [ok |-> FALSE, value |-> 0]

RECURSIVE Normalise(_, _)
Normalise(num, scale) ==
    IF num = 0 THEN [cls |-> "fin", num |-> 0, scale |-> 0]
    ELSE IF scale > 0 /\ num % 10 = 0 THEN Normalise(num \div 10, scale - 1)
    ELSE [cls |-> "fin", num |-> num, scale |-> scale]

SignedFloat(sign, f) == [f EXCEPT !.num = sign * @]

(***************************************************************************)
(* float() gives the double nearest to the literal.  For an integer part   *)
(* n < 2^31 and a fraction 0.d1d2..., that double is n when the fraction   *)
(* is at most half the gap between the doubles above n, 2^(e-53) for       *)
(* 2^e <= n < 2^(e+1), and n + 1 when it is that close to 1 (a tie goes to *)
(* the integer, whose significand is even).  Fractions are sequences of    *)
(* digit values.                                                           *)
(***************************************************************************)
\* half of the fraction 0.ds
Halve(ds) ==
    SubSeq([i \in 1..(Len(ds) + 1) |->
               LET carry == IF i = 1 THEN 0 ELSE ds[i - 1] % 2
                   d == IF i <= Len(ds) THEN ds[i] ELSE 0
               IN  (10 * carry + d) \div 2],
           1, Len(ds) + 1)

RECURSIVE HalveTimes(_, _)
HalveTimes(ds, k) ==
    IF Len(ds) = 0 \/ k = 0 THEN ds ELSE HalveTimes(Halve(ds), k - 1)

\* the digits of 2^(-k), k >= 1
Pow2Neg(k) == HalveTimes(<<5>>, k - 1)

RECURSIVE Log2Floor(_)
Log2Floor(n) == IF n < 2 THEN 0 ELSE 1 + Log2Floor(n \div 2)

\* 0.a <= 0.b
RECURSIVE FracLeqFrom(_, _, _)
FracLeqFrom(a, b, i) ==
    IF i > Len(a) /\ i > Len(b) THEN TRUE
    ELSE LET x == IF i <= Len(a) THEN a[i] ELSE 0
             y == IF i <= Len(b) THEN b[i] ELSE 0
         IN  IF x # y THEN x < y ELSE FracLeqFrom(a, b, i + 1)

FracLeq(a, b) == FracLeqFrom(a, b, 1)

\* 1 - 0.ds, for ds ending in a digit that is not 0
OneMinus(ds) ==
    [i \in 1..Len(ds) |-> IF i = Len(ds) THEN 10 - ds[i] ELSE 9 - ds[i]]


\* The integer the double nearest to n + 0.ds is, or -1 when that double is
\* no integer.  Half a gap is below 10^-6, so a fraction that does not start
\* with six 0s or six 9s is not looked at further.
RoundedTo(n, frac, half) ==
    LET lead == IF Len(frac) < 6 THEN {} ELSE {frac[i] : i \in 1..6}
    IN  IF frac = <<>> THEN n
        ELSE IF lead = {0} /\ n > 0 /\ FracLeq(frac, half) THEN n
        ELSE IF lead = {9} /\ n > 0 /\ FracLeq(OneMinus(frac), half) THEN n + 1
        ELSE IF lead = {9} /\ n = 0 /\ FracLeq(OneMinus(frac), Pow2Neg(54)) THEN 1
        ELSE -1

\* zeros at the end of the fraction do not change the value
RECURSIVE NearestInteger(_, _)
NearestInteger(n, ds) ==
    IF Len(ds) > 0 /\ ds[Len(ds)] = 0
    THEN NearestInteger(n, SubSeq(ds, 1, Len(ds) - 1))
    ELSE RoundedTo(n, ds, Pow2Neg(53 - Log2Floor(n)))

\* float(token): [ok |-> FALSE] stands for ValueError
PyFloat(token) ==
    LET body == Unsigned(token)
        dots == {i \in 1..Len(body) : body[i] = "."}
        bad  == [ok |-> FALSE, value |-> [cls |-> "nan", num |-> 0, scale |-> 0]]
    IN  IF body = <<"i", "n", "f">>
        THEN [ok |-> TRUE,
              value |-> [cls |-> "inf", num |-> SignOf(token), scale |-> 0]]
        ELSE IF body = <<"n", "a", "n">>
        THEN [ok |-> TRUE, value |-> [cls |-> "nan", num |-> 0, scale |-> 0]]
        ELSE IF Cardinality(dots) > 1 THEN bad
        ELSE LET dot  == IF dots = {} THEN Len(body) + 1
                         ELSE CHOOSE i \in dots : TRUE
                 ip   == SubSeq(body, 1, dot - 1)
                 fp   == SubSeq(body, dot + 1, Len(body))
             IN  IF Len(ip) + Len(fp) > 0 /\ AllDigits(ip) /\ AllDigits(fp)
                 THEN \* exact for the short literals, rounded to the
                      \* integer for those a double cannot tell from it
                      LET near == NearestInteger(DigitsToNat(ip),
                                     [i \in 1..Len(fp) |-> DigitVal(fp[i])])
                          exact == Normalise(DigitsToNat(ip \o fp), Len(fp))
                          rounded == {IF r >= 0 THEN Normalise(r, 0) ELSE exact :
                                         r \in {near}}
                      IN  [ok |-> TRUE,
                           value |-> CHOOSE x \in {SignedFloat(SignOf(token), v) :
                                                      v \in rounded} : TRUE]
                 ELSE bad

\* float.is_integer()
IsInteger(f) == f.cls = "fin" /\ f.scale = 0

(***************************************************************************)
(* FrameParseError messages, by their parts: what failed, the expected     *)
(* label (expect_label), the field label such as SOC[11] (the token        *)
(* parsers), the token position, the required count and the raw token.     *)
(***************************************************************************)
NoToken == <<>>

FieldLabel(name, cell) == [name |-> name, cell |-> cell]

NoField == FieldLabel("", 0)

\* f"{label} is not an integer: {token!r}"
NotAnInteger(label, token) ==
    [what |-> "not_an_integer", label |-> NoToken, field |-> label,
     index |-> -1, count |-> 0, token |-> token]

\* f"{label} is not a float: {token!r}"
NotAFloat(label, token) ==
    [what |-> "not_a_float", label |-> NoToken, field |-> label,
     index |-> -1, count |-> 0, token |-> token]

\* f"Expected label {label!r}, but frame ended early"
EndedEarly(label) ==
    [what |-> "ended_early", label |-> label, field |-> NoField,
     index |-> -1, count |-> 0, token |-> NoToken]

\* f"Expected label {label!r} at token {index}, found {tokens[index]!r}"
LabelMismatch(label, index, found) ==
    [what |-> "label_mismatch", label |-> label, field |-> NoField,
     index |-> index, count |-> 0, token |-> found]

\* f"Section {section_name!r} is truncated: expected {count} values"
Truncated(section_name, count) ==
    [what |-> "truncated", label |-> NoToken,
     field |-> FieldLabel(section_name, 0),
     index |-> -1, count |-> count, token |-> NoToken]

NoError ==
    [what |-> "none", label |-> NoToken, field |-> NoField,
     index |-> -1, count |-> 0, token |-> NoToken]

(***************************************************************************)
(* The token parsers                                                       *)
(***************************************************************************)
NoFloat == [cls |-> "nan", num |-> 0, scale |-> 0]

parse_int_token(token, label) ==
    LET i == PyInt(token)
        f == PyFloat(token)
    IN  IF i.ok THEN [ok |-> TRUE, value |-> i.value, err |-> NoError]
        ELSE IF ~f.ok
        THEN [ok |-> FALSE, value |-> 0, err |-> NotAnInteger(label, token)]
        ELSE IF ~IsInteger(f.value)
        THEN [ok |-> FALSE, value |-> 0, err |-> NotAnInteger(label, token)]
        ELSE [ok |-> TRUE, value |-> f.value.num, err |-> NoError]

parse_float_token(token, label) ==
    LET f == PyFloat(token)
    IN  IF f.ok THEN [ok |-> TRUE, value |-> f.value, err |-> NoError]
        ELSE [ok |-> FALSE, value |-> NoFloat, err |-> NotAFloat(label, token)]

\* parser(token, label) for parser in {parse_int_token, parse_float_token}
CallParser(parser, token, label) ==
    IF parser = "parse_int_token" THEN parse_int_token(token, label)
    ELSE parse_float_token(token, label)

(***************************************************************************)
(* tokenize_frame                                                          *)
(***************************************************************************)
tokenize_frame(raw_frame) ==
    LET normalized == RemoveChar(raw_frame, BOM)
        fields == SplitChar(normalized, ";")
        stripped == [i \in 1..Len(fields) |-> StrStrip(fields[i])]
    IN  SelectSeq(stripped, LAMBDA token : token # <<>>)

(***************************************************************************)
(* expect_label, parse_fixed_values                                        *)
(***************************************************************************)
expect_label(tokens, index, label) ==
    IF index >= Len(tokens)
    THEN [kind |-> "FrameParseError", index |-> index, err |-> EndedEarly(label)]
    ELSE IF tokens[index + 1] # label
    THEN [kind |-> "FrameParseError", index |-> index,
          err |-> LabelMismatch(label, index, tokens[index + 1])]
    ELSE [kind |-> "ok", index |-> index + 1, err |-> NoError]

\* Mutant: the cell label is the 0-based cell_index, not cell_index + 1
parse_fixed_values_cell0(tokens, index, count, parser, section_name) ==
    IF index + count > Len(tokens)
    THEN [kind |-> "FrameParseError", values |-> <<>>, index |-> index,
          err |-> Truncated(section_name, count)]
    ELSE LET cells == [c \in 1..count |->
                          CallParser(parser, tokens[index + c],
                                     FieldLabel(section_name, c - 1))]
             bad == {c \in 1..count : ~cells[c].ok}
         IN  IF bad = {}
             THEN [kind |-> "ok", values |-> [c \in 1..count |-> cells[c].value],
                   index |-> index + count, err |-> NoError]
             ELSE LET first == CHOOSE c \in bad : \A d \in bad : c <= d
                  IN  [kind |-> "FrameParseError", values |-> <<>>,
                       index |-> index, err |-> cells[first].err]

parse_fixed_values(tokens, index, count, parser, section_name) ==
    IF index + count > Len(tokens)
    THEN [kind |-> "FrameParseError", values |-> <<>>, index |-> index,
          err |-> Truncated(section_name, count)]
    ELSE LET cells == [c \in 1..count |->
                          CallParser(parser, tokens[index + c],
                                     FieldLabel(section_name, c))]
             bad == {c \in 1..count : ~cells[c].ok}
         IN  IF bad = {}
             THEN [kind |-> "ok", values |-> [c \in 1..count |-> cells[c].value],
                   index |-> index + count, err |-> NoError]
             ELSE LET first == CHOOSE c \in bad : \A d \in bad : c <= d
                  IN  [kind |-> "FrameParseError", values |-> <<>>,
                       index |-> index, err |-> cells[first].err]

(***************************************************************************)
(* parse_raw_frame.  The parse is threaded through a record st: kind is    *)
(* "run" while no exception was raised, else the exception's class; index  *)
(* is the source's index; frame collects the fields parsed so far.         *)
(***************************************************************************)
L_TOTDEV == <<"T", "O", "T", "D", "E", "V">>

L_CHAIN == <<"C", "H", "A", "I", "N">>

L_DEV == <<"D", "E", "V">>

L_SOC == <<"S", "O", "C">>

L_Vcell == <<"V", "c", "e", "l", "l", ":">>

L_TEMP == <<"T", "E", "M", "P", ":">>

L_BAL == <<"B", "A", "L", ":">>

L_Curr == <<"C", "u", "r", "r", ":">>

L_totV == <<"t", "o", "t", "V", ":">>

L_Vref == <<"V", "r", "e", "f", ":">>

L_VUV == <<"V", "U", "V", ":">>

L_VOV == <<"V", "O", "V", ":">>

L_GPUT == <<"G", "P", "U", "T", ":">>

L_GPOT == <<"G", "P", "O", "T", ":">>

L_FAULTS == <<"F", "A", "U", "L", "T", "S", ":">>

L_VTREF == <<"V", "T", "R", "E", "F">>

FrameFields ==
    {"total_devices", "chain_id", "device_id", "soc_values", "vcell_values",
     "temp_values", "bal_values", "current_a", "pack_voltage_v", "vref_v",
     "vuv_threshold_v", "vov_threshold_v", "gput_threshold_v",
     "gpot_threshold_v", "fault_values", "vtref_v"}

\* the fields before they are assigned
Unset == <<"unset">>

ParseStart ==
    [kind |-> "run", index |-> 0, err |-> NoError,
     frame |-> [f \in FrameFields |-> Unset]]

Raise(st, err) == [st EXCEPT !.kind = "FrameParseError", !.err = err]

\* index = expect_label(tokens, index, label)
\* value = parser(tokens[index], name); index += 1
ScalarStep(st, tokens, label, parser, name, field) ==
    IF st.kind # "run" THEN st
    ELSE LET e == expect_label(tokens, st.index, label)
         IN  IF e.kind # "ok" THEN Raise(st, e.err)
             ELSE IF e.index >= Len(tokens)
             THEN [st EXCEPT !.kind = "IndexError", !.index = e.index]
             ELSE LET p == CallParser(parser, tokens[e.index + 1],
                                      FieldLabel(name, 0))
                  IN  IF ~p.ok THEN Raise([st EXCEPT !.index = e.index], p.err)
                      ELSE [st EXCEPT !.index = e.index + 1,
                                      !.frame[field] = p.value]

\* index = expect_label(tokens, index, label)
\* values, index = parse_fixed_values(tokens, index, CELL_COUNT, parser, name)
SectionStep(st, tokens, label, parser, name, field) ==
    IF st.kind # "run" THEN st
    ELSE LET e == expect_label(tokens, st.index, label)
         IN  IF e.kind # "ok" THEN Raise(st, e.err)
             ELSE LET r == parse_fixed_values(tokens, e.index, CELL_COUNT,
                                              parser, name)
                  IN  IF r.kind # "ok"
                      THEN Raise([st EXCEPT !.index = e.index], r.err)
                      ELSE [st EXCEPT !.index = r.index,
                                      !.frame[field] = r.values]

\* Mutant: the loop body runs once before "VTREF" is looked for
FaultsStep_do_while(st, tokens) ==
    IF st.kind # "run" THEN st
    ELSE LET e == expect_label(tokens, st.index, L_FAULTS)
         IN  IF e.kind # "ok" THEN Raise(st, e.err)
             ELSE LET stops == {i \in (e.index + 1)..(Len(tokens) - 1) :
                                    tokens[i + 1] = L_VTREF}
                      stop == IF stops = {} THEN Len(tokens)
                              ELSE CHOOSE i \in stops : \A j \in stops : i <= j
                      n == stop - e.index
                      cells == [c \in 1..n |->
                                   parse_int_token(tokens[e.index + c],
                                                   FieldLabel("FAULTS", c))]
                      bad == {c \in 1..n : ~cells[c].ok}
                  IN  IF bad = {}
                      THEN [st EXCEPT !.index = stop,
                                !.frame["fault_values"] =
                                    [c \in 1..n |-> cells[c].value]]
                      ELSE LET first == CHOOSE c \in bad : \A d \in bad : c <= d
                           IN  Raise([st EXCEPT !.index = e.index + first - 1],
                                     cells[first].err)

\* index = expect_label(tokens, index, "FAULTS:"), then the while loop that
\* consumes integers until "VTREF" or the end of the tokens
FaultsStep(st, tokens) ==
    IF st.kind # "run" THEN st
    ELSE LET e == expect_label(tokens, st.index, L_FAULTS)
         IN  IF e.kind # "ok" THEN Raise(st, e.err)
             ELSE LET stops == {i \in e.index..(Len(tokens) - 1) :
                                    tokens[i + 1] = L_VTREF}
                      stop == IF stops = {} THEN Len(tokens)
                              ELSE CHOOSE i \in stops : \A j \in stops : i <= j
                      n == stop - e.index
                      cells == [c \in 1..n |->
                                   parse_int_token(tokens[e.index + c],
                                                   FieldLabel("FAULTS", c))]
                      bad == {c \in 1..n : ~cells[c].ok}
                  IN  IF bad = {}
                      THEN [st EXCEPT !.index = stop,
                                !.frame["fault_values"] =
                                    [c \in 1..n |-> cells[c].value]]
                      ELSE LET first == CHOOSE c \in bad : \A d \in bad : c <= d
                           IN  Raise([st EXCEPT !.index = e.index + first - 1],
                                     cells[first].err)

\* index = expect_label(tokens, index, "VTREF")
\* vtref_v = parse_float_token(tokens[index], "VTREF")
VtrefStep(st, tokens) ==
    IF st.kind # "run" THEN st
    ELSE LET e == expect_label(tokens, st.index, L_VTREF)
         IN  IF e.kind # "ok" THEN Raise(st, e.err)
             ELSE IF e.index >= Len(tokens)
             THEN [st EXCEPT !.kind = "IndexError", !.index = e.index]
             ELSE LET p == parse_float_token(tokens[e.index + 1],
                                             FieldLabel("VTREF", 0))
                  IN  IF ~p.ok THEN Raise([st EXCEPT !.index = e.index], p.err)
                      ELSE [st EXCEPT !.kind = "ok", !.index = e.index,
                                      !.frame["vtref_v"] = p.value]

\* The 16 steps of parse_raw_frame, in the order of the source
Grammar ==
    <<[step |-> "scalar", label |-> L_TOTDEV, parser |-> "parse_int_token",
       name |-> "TOTDEV", field |-> "total_devices"],
      [step |-> "scalar", label |-> L_CHAIN, parser |-> "parse_int_token",
       name |-> "CHAIN", field |-> "chain_id"],
      [step |-> "scalar", label |-> L_DEV, parser |-> "parse_int_token",
       name |-> "DEV", field |-> "device_id"],
      [step |-> "section", label |-> L_SOC, parser |-> "parse_int_token",
       name |-> "SOC", field |-> "soc_values"],
      [step |-> "section", label |-> L_Vcell, parser |-> "parse_float_token",
       name |-> "Vcell", field |-> "vcell_values"],
      [step |-> "section", label |-> L_TEMP, parser |-> "parse_float_token",
       name |-> "TEMP", field |-> "temp_values"],
      [step |-> "section", label |-> L_BAL, parser |-> "parse_int_token",
       name |-> "BAL", field |-> "bal_values"],
      [step |-> "scalar", label |-> L_Curr, parser |-> "parse_float_token",
       name |-> "Curr", field |-> "current_a"],
      [step |-> "scalar", label |-> L_totV, parser |-> "parse_float_token",
       name |-> "totV", field |-> "pack_voltage_v"],
      [step |-> "scalar", label |-> L_Vref, parser |-> "parse_float_token",
       name |-> "Vref", field |-> "vref_v"],
      [step |-> "scalar", label |-> L_VUV, parser |-> "parse_float_token",
       name |-> "VUV", field |-> "vuv_threshold_v"],
      [step |-> "scalar", label |-> L_VOV, parser |-> "parse_float_token",
       name |-> "VOV", field |-> "vov_threshold_v"],
      [step |-> "scalar", label |-> L_GPUT, parser |-> "parse_float_token",
       name |-> "GPUT", field |-> "gput_threshold_v"],
      [step |-> "scalar", label |-> L_GPOT, parser |-> "parse_float_token",
       name |-> "GPOT", field |-> "gpot_threshold_v"],
      [step |-> "faults", label |-> L_FAULTS, parser |-> "parse_int_token",
       name |-> "FAULTS", field |-> "fault_values"],
      [step |-> "vtref", label |-> L_VTREF, parser |-> "parse_float_token",
       name |-> "VTREF", field |-> "vtref_v"]>>

GrammarStep(st, tokens, g) ==
    CASE g.step = "scalar" ->
            ScalarStep(st, tokens, g.label, g.parser, g.name, g.field)
      [] g.step = "section" ->
            SectionStep(st, tokens, g.label, g.parser, g.name, g.field)
      [] g.step = "faults" -> FaultsStep(st, tokens)
      [] g.step = "vtref" -> VtrefStep(st, tokens)

\* The parse after the first n steps
RECURSIVE ParseSteps(_, _)
ParseSteps(tokens, n) ==
    IF n = 0 THEN ParseStart
    ELSE LET before == ParseSteps(tokens, n - 1)
         IN  GrammarStep(before, tokens, Grammar[n])

\* The result: kind "ok" with the frame, or the exception raised
parse_raw_frame(raw_frame) ==
    LET tokens == tokenize_frame(raw_frame)
    IN  ParseSteps(tokens, Len(Grammar))

(***************************************************************************)
(* Inputs of the parser: the frames a sender can emit, and damaged ones.   *)
(* A frame is generated from the values it carries, formatted as the       *)
(* sender formats them, so that parsing has a conversion to undo.          *)
(***************************************************************************)
\* most fault values a generated frame carries
MaxFaults == 2

RECURSIVE FormatNat(_)
FormatNat(n) ==
    IF n < 10 THEN <<DigitChars[n + 1]>>
    ELSE Append(FormatNat(n \div 10), DigitChars[(n % 10) + 1])

\* an integer as "12" (style "int") or as "12.0" (style "dot0")
FormatInt(n, style) ==
    LET body == FormatNat(IF n < 0 THEN -n ELSE n)
        signed == IF n < 0 THEN <<"-">> \o body ELSE body
    IN  IF style = "dot0" THEN signed \o <<".", "0">> ELSE signed

RECURSIVE PadLeft(_, _)
PadLeft(ds, n) == IF Len(ds) >= n THEN ds ELSE PadLeft(<<"0">> \o ds, n)

\* a finite float in lowest form, as digits with a decimal point
FormatFloat(f) ==
    LET mag == IF f.num < 0 THEN -f.num ELSE f.num
        ds == PadLeft(FormatNat(mag), f.scale + 1)
        ip == SubSeq(ds, 1, Len(ds) - f.scale)
        fp == SubSeq(ds, Len(ds) - f.scale + 1, Len(ds))
        body == IF f.scale = 0 THEN ip \o <<".", "0">> ELSE ip \o <<".">> \o fp
    IN  IF f.num < 0 THEN <<"-">> \o body ELSE body

Fin(num, scale) == [cls |-> "fin", num |-> num, scale |-> scale]

\* The values of a generated frame with k faults: all sections differ, and
\* no section reads the same backwards
FrameValues(k, seed) ==
    [total_devices |-> 2 + seed,
     chain_id |-> seed,
     device_id |-> 1 + seed,
     soc_values |-> [i \in 1..CELL_COUNT |-> 50 + seed + i],
     vcell_values |-> [i \in 1..CELL_COUNT |-> Fin(3301 + 10 * i + seed, 3)],
     temp_values |-> [i \in 1..CELL_COUNT |-> Fin(251 + 2 * i, 1)],
     bal_values |-> [i \in 1..CELL_COUNT |-> (i + seed) % 2],
     current_a |-> Fin(-(15 + seed), 1),
     pack_voltage_v |-> Fin(4725 + seed, 2),
     vref_v |-> Fin(5, 0),
     vuv_threshold_v |-> Fin(28, 1),
     vov_threshold_v |-> Fin(42, 1),
     gput_threshold_v |-> Fin(12, 1),
     gpot_threshold_v |-> Fin(31, 1),
     fault_values |-> [j \in 1..k |-> (j + seed) % 3],
     vtref_v |-> Fin(33, 1)]

IntTokens(values, style) ==
    [i \in 1..Len(values) |-> FormatInt(values[i], style)]

FloatTokens(values) == [i \in 1..Len(values) |-> FormatFloat(values[i])]

\* The token sequence of the frame carrying the values v
FrameTokens(v, style) ==
    <<L_TOTDEV, FormatInt(v.total_devices, style),
      L_CHAIN, FormatInt(v.chain_id, style),
      L_DEV, FormatInt(v.device_id, style), L_SOC>>
    \o IntTokens(v.soc_values, style)
    \o <<L_Vcell>> \o FloatTokens(v.vcell_values)
    \o <<L_TEMP>> \o FloatTokens(v.temp_values)
    \o <<L_BAL>> \o IntTokens(v.bal_values, style)
    \o <<L_Curr, FormatFloat(v.current_a), L_totV, FormatFloat(v.pack_voltage_v),
         L_Vref, FormatFloat(v.vref_v), L_VUV, FormatFloat(v.vuv_threshold_v),
         L_VOV, FormatFloat(v.vov_threshold_v),
         L_GPUT, FormatFloat(v.gput_threshold_v),
         L_GPOT, FormatFloat(v.gpot_threshold_v), L_FAULTS>>
    \o IntTokens(v.fault_values, style)
    \o <<L_VTREF, FormatFloat(v.vtref_v)>>

\* The 0-based position of each label in a well-formed token sequence
LabelPos ==
    [SOC |-> 6, Vcell |-> 7 + CELL_COUNT, TEMP |-> 8 + 2 * CELL_COUNT,
     BAL |-> 9 + 3 * CELL_COUNT]

SectionNames == {"SOC", "Vcell", "TEMP", "BAL"}

\* tokens that are no label and no number where one is expected
JunkTokens ==
    {<<"x">>, <<"1", "2", ".", "5">>, <<"V", "c", "e", "l", "l">>,
     <<"n", "a", "n">>}

\* literals with a fraction too small for a double: 17 digits after the
\* point, 12.00000000000000001 and 11.99999999999999999
Zeros(n) == [i \in 1..n |-> "0"]

Nines(n) == [i \in 1..n |-> "9"]

LongTokens ==
    {<<"1", "2", ".">> \o Zeros(16) \o <<"1">>, <<"1", "1", ".">> \o Nines(17)}

\* an integer written with a sign and a fraction of zeros
SignedDot00 == <<"+", "7", ".", "0", "0">>

\* The frame as the sender writes it: every token followed by ";", with a
\* space after the separator when padded
RECURSIVE Render(_, _)
Render(tokens, padded) ==
    IF tokens = <<>> THEN <<>>
    ELSE IF Len(tokens) = 1
    THEN tokens[1] \o (IF padded THEN <<";", " ">> ELSE <<";">>)
    ELSE LET m == Len(tokens) \div 2
         IN  Render(SubSeq(tokens, 1, m), padded)
             \o Render(SubSeq(tokens, m + 1, Len(tokens)), padded)

RemoveAt(seq, p, n) == SubSeq(seq, 1, p - 1) \o SubSeq(seq, p + n, Len(seq))

\* A damaged token sequence.  mut.kind:
\*   "none"                      the frame as generated
\*   "cut"     at n              only the first n tokens
\*   "replace" at p with token   token p (1-based) replaced
\*   "delete"  at p              token p removed
\*   "shorten" section, d        the last d values of the section removed,
\*                               the rest of the frame following
Damage(tokens, mut) ==
    CASE mut.kind = "none" -> tokens
      [] mut.kind = "cut" -> SubSeq(tokens, 1, mut.at)
      [] mut.kind = "replace" -> [tokens EXCEPT ![mut.at] = mut.token]
      [] mut.kind = "delete" -> RemoveAt(tokens, mut.at, 1)
      [] mut.kind = "shorten" ->
            RemoveAt(tokens, LabelPos[mut.section] + 1 + CELL_COUNT - mut.d + 1,
                     mut.d)

Mut(kind, at, token, section, d) ==
    [kind |-> kind, at |-> at, token |-> token, section |-> section, d |-> d]

NoMut == Mut("none", 0, NoToken, "", 0)

\* Number of tokens of a well-formed frame with k faults
FrameLen(k) == 6 + 4 * (1 + CELL_COUNT) + 14 + 1 + k + 2

Mutations(k) ==
    {NoMut}
    \cup {Mut("cut", n, NoToken, "", 0) : n \in 0..(FrameLen(k) - 1)}
    \cup {Mut("replace", p, t, "", 0) :
             p \in 1..FrameLen(k),
             t \in JunkTokens \cup LongTokens \cup {SignedDot00}}
    \cup {Mut("delete", p, NoToken, "", 0) : p \in 1..FrameLen(k)}
    \cup {Mut("shorten", 0, NoToken, s, d) : s \in SectionNames, d \in 1..CELL_COUNT}

\* the renderings of a frame: integer style, padding after the separator
Renderings == {<<"int", FALSE>>, <<"dot0", FALSE>>, <<"int", TRUE>>}

CaseTokens(c) == Damage(FrameTokens(FrameValues(c.k, 0), c.style), c.mut)

CaseRaw(c) == Render(CaseTokens(c), c.padded)

(***************************************************************************)
(* Inputs of a run: a stream of frames, each followed by the marker and a  *)
(* line end.  The i-th frame carries the values FrameValues(k, i).         *)
(***************************************************************************)
\* most frames in an input stream
MaxFrames == 2

\* The damaged frames of the streams: the label "DEV" missing (a label
\* mismatch), and the frame ending right after "TOTDEV"
NoDev == Mut("delete", 5, NoToken, "", 0)

EndsAfterLabel == Mut("cut", 1, NoToken, "", 0)

\* The frames of the streams: well-formed with no fault value and with
\* MaxFaults of them, and the two damaged ones
FrameKinds ==
    {[k |-> k, mut |-> NoMut] : k \in {0, MaxFaults}}
    \cup {[k |-> 0, mut |-> NoDev], [k |-> 0, mut |-> EndsAfterLabel]}

RECURSIVE SeqsUpTo(_, _)
SeqsUpTo(S, n) ==
    IF n = 0 THEN {<<>>}
    ELSE LET shorter == SeqsUpTo(S, n - 1)
         IN  shorter \cup {Append(q, x) : q \in {r \in shorter : Len(r) = n - 1},
                                          x \in S}

WellFormed(kind) == kind.mut.kind = "none"

\* The raw frame (before the marker) of the i-th frame sent
SentRaw(kind, i) ==
    Render(Damage(FrameTokens(FrameValues(kind.k, i), "int"), kind.mut), FALSE)

RECURSIVE StreamText(_, _)
StreamText(kinds, n) ==
    IF n = 0 THEN <<>>
    ELSE StreamText(kinds, n - 1) \o SentRaw(kinds[n], n)
         \o FRAME_END_MARKER \o <<"\r", "\n">>

(***************************************************************************)
(* The state of a run                                                      *)
(***************************************************************************)
VARIABLES
    p_case, p_raw, p_result,      \* the parser alone: its input and result
    args,                         \* the command line, and what it names
    sent, input, cuts,            \* the stream, and where a read may end
    pc, exit_code, raised,        \* main(): position, exit status, exception
    gen, pos, buffer, port,       \* the frame generator
    captured_frames, clock, start_time,
    raw_frame, yielded,           \* the frame at the yield; all frames yielded
    source_index, parsed_count, skipped_count, max_fault_count, warnings,
    fault_columns, csv_open, csv_header, csv_rows, row_source

parseVars == <<p_case, p_raw, p_result>>

envVars == <<args, sent, input, cuts>>

mainVars == <<pc, exit_code, raised>>

genVars == <<gen, pos, buffer, port, captured_frames, clock, start_time,
             raw_frame, yielded>>

conVars == <<source_index, parsed_count, skipped_count, max_fault_count,
             warnings>>

csvVars == <<fault_columns, csv_open, csv_header, csv_rows, row_source>>

vars == <<parseVars, envVars, mainVars, genVars, conVars, csvVars>>

\* Optional[...] = None
None == -1

NotParsed == [ParseStart EXCEPT !.kind = "none"]

NoCase == [k |-> 0, style |-> "int", padded |-> FALSE, mut |-> NoMut]

ParserIdle == p_case = NoCase /\ p_raw = <<>> /\ p_result = NotParsed

\* The state before main() runs, for the given command line and stream
RunStart(a, frames, text, ends) ==
    /\ args = a /\ sent = frames /\ input = text /\ cuts = ends
    /\ pc = "start" /\ exit_code = None /\ raised = "none"
    /\ gen = "none" /\ pos = 0 /\ buffer = <<>> /\ port = "none"
    /\ captured_frames = 0 /\ clock = 0 /\ start_time = 0
    /\ raw_frame = <<>> /\ yielded = <<>>
    /\ source_index = 0 /\ parsed_count = 0 /\ skipped_count = 0
    /\ max_fault_count = 0 /\ warnings = <<>>
    /\ fault_columns = <<>> /\ csv_open = FALSE /\ csv_header = <<>>
    /\ csv_rows = <<>> /\ row_source = <<>>

NoArgs ==
    [mode |-> "none", strict |-> FALSE, input_ok |-> FALSE, chunk_chars |-> 0,
     duration |-> None, max_frames |-> None, fault_names |-> 0]

(***************************************************************************)
(* The parser alone                                                        *)
(***************************************************************************)
InitParse ==
    /\ \E k \in 0..MaxFaults, r \in Renderings :
          \E m \in Mutations(k) :
             p_case = [k |-> k, style |-> r[1], padded |-> r[2], mut |-> m]
    /\ p_raw = CaseRaw(p_case)
    /\ p_result = NotParsed
    /\ RunStart(NoArgs, <<>>, <<>>, {})

\* frame = parse_raw_frame(raw_frame)
ParseFrame ==
    /\ p_result.kind = "none"
    /\ p_raw # <<>>
    /\ p_result' = parse_raw_frame(p_raw)
    /\ UNCHANGED <<p_case, p_raw, envVars, mainVars, genVars, conVars, csvVars>>

NextParse == ParseFrame

SpecParse == InitParse /\ [][NextParse]_vars

(***************************************************************************)
(* The CSV writer                                                          *)
(***************************************************************************)
\* A cell of the CSV: an int, a float ("fin", "inf", "nan") or the empty string
IntCell(n) == [cls |-> "int", num |-> n, scale |-> 0]

EmptyCell == [cls |-> "empty", num |-> 0, scale |-> 0]

IntCells(values) == [i \in 1..Len(values) |-> IntCell(values[i])]

\* A column name: its stem and, for a numbered column, its number
Col(stem, n) == [stem |-> stem, n |-> n]

\* Mutant: one column per fault name, also when no name was found
build_fault_column_names_named(fault_count, fault_names_from_source) ==
    [i \in 1..fault_names_from_source |-> Col("fault_named", i)]

\* build_fault_column_names: fault_001.. fault_<count>; the names scraped
\* from the C source only decorate the first len(names) of them
build_fault_column_names(fault_count, fault_names_from_source) ==
    [i \in 1..fault_count |->
        Col(IF i <= fault_names_from_source THEN "fault_named" ELSE "fault", i)]

\* CsvStreamWriter.__enter__: the header row
Headers(columns) ==
    <<Col("frame_index", 0), Col("total_devices", 0), Col("chain_id", 0),
      Col("device_id", 0)>>
    \o [c \in 1..CELL_COUNT |-> Col("soc_cell", c)]
    \o [c \in 1..CELL_COUNT |-> Col("vcell_v", c)]
    \o [c \in 1..CELL_COUNT |-> Col("temp_cell_raw", c)]
    \o [c \in 1..CELL_COUNT |-> Col("bal_cell", c)]
    \o <<Col("current_a", 0), Col("pack_voltage_v", 0), Col("vref_v", 0),
         Col("vuv_threshold_v", 0), Col("vov_threshold_v", 0),
         Col("gput_threshold_v", 0), Col("gpot_threshold_v", 0)>>
    \o columns
    \o <<Col("vtref_v", 0)>>

\* Mutant: a short fault list is not padded
FaultCells_unpadded(faults, n) ==
    IntCells(IF Len(faults) > n THEN SubSeq(faults, 1, n) ELSE faults)

\* CsvStreamWriter.write_frame: the row of a frame
FaultCells(faults, n) ==
    LET kept == IF Len(faults) > n THEN SubSeq(faults, 1, n) ELSE faults
    IN  IntCells(kept) \o [i \in 1..(n - Len(kept)) |-> EmptyCell]

write_frame(frame_index, frame, columns) ==
    <<IntCell(frame_index), IntCell(frame["total_devices"]),
      IntCell(frame["chain_id"]), IntCell(frame["device_id"])>>
    \o IntCells(frame["soc_values"])
    \o frame["vcell_values"]
    \o frame["temp_values"]
    \o IntCells(frame["bal_values"])
    \o <<frame["current_a"], frame["pack_voltage_v"], frame["vref_v"],
         frame["vuv_threshold_v"], frame["vov_threshold_v"],
         frame["gput_threshold_v"], frame["gpot_threshold_v"]>>
    \o FaultCells(frame["fault_values"], Len(columns))
    \o <<frame["vtref_v"]>>


(***************************************************************************)
(* main()                                                                  *)
(***************************************************************************)
\* An uncaught exception leaves the with block (CsvStreamWriter.__exit__
\* closes the file) and main(); the interpreter prints the traceback and
\* exits with status 1, or 130 for a KeyboardInterrupt
Escapes(exc) ==
    /\ csv_open' = FALSE
    /\ pc' = "exit"
    /\ raised' = exc
    /\ exit_code' = IF exc = "KeyboardInterrupt" THEN 130 ELSE 1

\* main() up to the with statement: the fault columns, the generator object
\* (none of its body runs yet), the writer opened and the header written
Main_Setup ==
    /\ pc = "start"
    /\ args.mode \in {"file", "serial"}
    /\ LET expected_fault_count ==
               IF args.fault_names > 0 THEN args.fault_names
               ELSE DEFAULT_FAULT_COUNT
           columns == build_fault_column_names(expected_fault_count,
                                               args.fault_names)
       IN  /\ fault_columns' = columns
           /\ csv_header' = Headers(columns)
    /\ csv_open' = TRUE
    /\ gen' = "created"
    /\ pc' = "stream"
    /\ UNCHANGED <<parseVars, envVars, exit_code, raised, pos, buffer, port,
                   captured_frames, clock, start_time, raw_frame, yielded,
                   conVars, csv_rows, row_source>>

\* The generator is exhausted: stream_frames_to_csv returns, the with block
\* closes the file, main() returns 1 when nothing was parsed, else 0
Main_Finish ==
    /\ pc = "stream"
    /\ gen = "done"
    /\ csv_open' = FALSE
    /\ exit_code' = IF parsed_count = 0 THEN 1 ELSE 0
    /\ pc' = "exit"
    /\ UNCHANGED <<parseVars, envVars, raised, genVars, conVars, fault_columns,
                   csv_header, csv_rows, row_source>>

(***************************************************************************)
(* iter_frames_from_text_file.  gen is the generator's position: "created" *)
(* (no next() yet), "reading" (at fp.read), "splitting" (at the inner      *)
(* while), "at_yield" (suspended, the consumer runs), "resume" (next()     *)
(* called again), "done" (returned or raised).                             *)
(***************************************************************************)
\* a chunk joined to the buffer as it came
KeepLineEnds(chunk) == chunk

\* chunk.replace("\r", "").replace("\n", "")
StripLineEnds(chunk) == RemoveChar(RemoveChar(chunk, "\r"), "\n")

Min(a, b) == IF a < b THEN a ELSE b

\* the first next(): path.open
File_Open ==
    /\ pc = "stream" /\ args.mode = "file" /\ gen = "created"
    /\ IF args.input_ok
       THEN /\ gen' = "reading"
            /\ UNCHANGED <<mainVars, csv_open>>
       ELSE /\ gen' = "done"
            /\ Escapes("FileNotFoundError")
    /\ UNCHANGED <<parseVars, envVars, pos, buffer, port, captured_frames,
                   clock, start_time, raw_frame, yielded, conVars,
                   fault_columns, csv_header, csv_rows, row_source>>

\* chunk = fp.read(chunk_chars); break at the end of the file, else
\* buffer += chunk.replace("\r", "").replace("\n", "")
File_Read ==
    /\ pc = "stream" /\ args.mode = "file" /\ gen = "reading"
    /\ LET chunk == SubSeq(input, pos + 1,
                           Min(pos + args.chunk_chars, Len(input)))
       IN  IF chunk = <<>>
           THEN /\ gen' = "done"
                /\ UNCHANGED <<pos, buffer>>
           ELSE /\ buffer' = buffer \o StripLineEnds(chunk)
                /\ pos' = pos + Len(chunk)
                /\ gen' = "splitting"
    /\ UNCHANGED <<parseVars, envVars, mainVars, port, captured_frames, clock,
                   start_time, raw_frame, yielded, conVars, csvVars>>

\* one turn of: while FRAME_END_MARKER in buffer
File_Split ==
    /\ pc = "stream" /\ args.mode = "file" /\ gen \in {"splitting", "resume"}
    /\ IF Contains(buffer, FRAME_END_MARKER)
       THEN LET parts == SplitOnce(buffer, FRAME_END_MARKER)
                frame_raw == StrStrip(parts[1])
            IN  /\ buffer' = parts[2]
                /\ IF frame_raw # <<>>
                   THEN /\ gen' = "at_yield"
                        /\ raw_frame' = frame_raw
                        /\ yielded' = Append(yielded, frame_raw)
                   ELSE /\ gen' = "splitting"
                        /\ UNCHANGED <<raw_frame, yielded>>
       ELSE /\ gen' = "reading"
            /\ UNCHANGED <<buffer, raw_frame, yielded>>
    /\ UNCHANGED <<parseVars, envVars, mainVars, pos, port, captured_frames,
                   clock, start_time, conVars, csvVars>>

(***************************************************************************)
(* stream_frames_to_csv: the body of the for loop, for the frame at the    *)
(* yield                                                                   *)
(***************************************************************************)
Max(a, b) == IF a > b THEN a ELSE b

\* f"[WARN] Skipped frame #{source_index}: {exc}"
Warning(index, err) == [source_index |-> index, cause |-> err]

\* Mutant: the row is put before the rows already written
WriteRow_first(row) == csv_rows' = <<row>> \o csv_rows

\* self._writer.writerow(row)
WriteRow(row) == csv_rows' = Append(csv_rows, row)

Consume ==
    /\ pc = "stream" /\ gen = "at_yield"
    /\ source_index' = source_index + 1
    /\ \E frame \in {parse_raw_frame(raw_frame)} :
          IF frame.kind = "ok"
          THEN \E row \in {write_frame(parsed_count + 1, frame.frame,
                                       fault_columns)} :
                /\ parsed_count' = parsed_count + 1
                /\ max_fault_count' =
                      Max(max_fault_count, Len(frame.frame["fault_values"]))
                /\ WriteRow(row)
                /\ row_source' = Append(row_source, source_index + 1)
                /\ gen' = "resume"
                /\ UNCHANGED <<skipped_count, warnings, mainVars, csv_open>>
          ELSE IF frame.kind = "FrameParseError" /\ ~args.strict
          THEN /\ warnings' = Append(warnings,
                                     Warning(source_index + 1, frame.err))
               /\ skipped_count' = skipped_count + 1
               /\ gen' = "resume"
               /\ UNCHANGED <<parsed_count, max_fault_count, csv_rows,
                              row_source, mainVars, csv_open>>
          ELSE /\ Escapes(IF frame.kind = "FrameParseError"
                          THEN "RuntimeError" ELSE frame.kind)
               /\ UNCHANGED <<parsed_count, skipped_count, max_fault_count,
                              warnings, csv_rows, row_source, gen>>
    /\ UNCHANGED <<parseVars, envVars, pos, buffer, port, captured_frames,
                   clock, start_time, raw_frame, yielded, fault_columns,
                   csv_header>>

(***************************************************************************)
(* A run on a file                                                         *)
(***************************************************************************)
\* numbers of fault names the C source may give (0: none found)
FaultNameCounts == {0, 1, 2}

FileArgs(strict, ok, names) ==
    [mode |-> "file", strict |-> strict, input_ok |-> ok,
     chunk_chars |-> CHUNK_CHARS, duration |-> None, max_frames |-> None,
     fault_names |-> names]

InitRun ==
    /\ ParserIdle
    /\ \E frames \in SeqsUpTo(FrameKinds, MaxFrames), strict \in BOOLEAN,
          ok \in BOOLEAN, names \in FaultNameCounts :
          /\ ok \/ (frames = <<>> /\ names = 0)
          /\ RunStart(FileArgs(strict, ok, names), frames,
                      StreamText(frames, Len(frames)), {})

NextRun ==
    \/ Main_Setup
    \/ File_Open
    \/ File_Read
    \/ File_Split
    \/ Consume
    \/ Main_Finish

SpecRun == InitRun /\ [][NextRun]_vars

(***************************************************************************)
(* iter_frames_from_serial.  The generator's positions are those of the    *)
(* file generator; port is "none" before serial.Serial(...), then "open",  *)
(* then "closed".  A read may end at any position of cuts, or return no    *)
(* byte; time may pass while it blocks (the clock is read only for the     *)
(* duration test, so it is followed only when a duration is given).        *)
(***************************************************************************)
\* latest clock value of a run
MaxClock == 2

\* a loop that never looks at the clock
DurationReached_never == FALSE

DurationReached ==
    args.duration # None /\ clock - start_time >= args.duration

\* a loop that never looks at the frame count
FramesReached_never == FALSE

FramesReached ==
    args.max_frames # None /\ captured_frames >= args.max_frames

\* a finally clause that releases nothing
Finally_pass(p) == p

\* finally: serial_port.close()
Finally(p) == IF p = "open" THEN "closed" ELSE p

\* the first next(): serial.Serial(port=..., baudrate=..., timeout=...)
Serial_Open ==
    /\ pc = "stream" /\ args.mode = "serial" /\ gen = "created"
    /\ IF args.input_ok
       THEN /\ port' = "open"
            /\ captured_frames' = 0
            /\ buffer' = <<>>
            /\ start_time' = clock
            /\ gen' = "reading"
            /\ UNCHANGED <<mainVars, csv_open>>
       ELSE /\ gen' = "done"
            /\ Escapes("SerialException")
            /\ UNCHANGED <<port, captured_frames, buffer, start_time>>
    /\ UNCHANGED <<parseVars, envVars, pos, clock, raw_frame, yielded, conVars,
                   fault_columns, csv_header, csv_rows, row_source>>

\* the top of the while loop when a stop condition holds: break, and the
\* finally clause closes the port
Serial_Stop ==
    /\ pc = "stream" /\ args.mode = "serial" /\ gen = "reading"
    /\ DurationReached \/ FramesReached
    /\ port' = Finally(port)
    /\ gen' = "done"
    /\ UNCHANGED <<parseVars, envVars, mainVars, pos, buffer, captured_frames,
                   clock, start_time, raw_frame, yielded, conVars, csvVars>>

\* chunk = serial_port.read(serial_port.in_waiting or 1); no byte: continue;
\* else the chunk joins the buffer and line ends are removed from it
Serial_Read ==
    /\ pc = "stream" /\ args.mode = "serial" /\ gen = "reading"
    /\ ~DurationReached /\ ~FramesReached
    /\ \E end \in {pos} \cup {c \in cuts : c > pos},
          now \in IF args.duration = None THEN {clock}
                   ELSE {clock, Min(clock + 1, MaxClock)} :
          /\ clock' = now
          /\ pos' = end
          /\ IF end = pos
             THEN UNCHANGED <<buffer, gen>>
             ELSE /\ buffer' = StripLineEnds(buffer \o SubSeq(input, pos + 1, end))
                  /\ gen' = "splitting"
    /\ UNCHANGED <<parseVars, envVars, mainVars, port, captured_frames,
                   start_time, raw_frame, yielded, conVars, csvVars>>

\* KeyboardInterrupt inside the while loop: caught, and the finally clause
\* closes the port; the generator returns
Serial_Interrupt ==
    /\ pc = "stream" /\ args.mode = "serial"
    /\ gen \in {"reading", "splitting", "resume"}
    /\ port' = Finally(port)
    /\ gen' = "done"
    /\ UNCHANGED <<parseVars, envVars, mainVars, pos, buffer, captured_frames,
                   clock, start_time, raw_frame, yielded, conVars, csvVars>>

\* one turn of: while FRAME_END_MARKER in buffer
Serial_Split ==
    /\ pc = "stream" /\ args.mode = "serial" /\ gen = "splitting"
    /\ IF Contains(buffer, FRAME_END_MARKER)
       THEN LET parts == SplitOnce(buffer, FRAME_END_MARKER)
                frame_raw == StrStrip(parts[1])
            IN  /\ buffer' = parts[2]
                /\ IF frame_raw # <<>>
                   THEN /\ captured_frames' = captured_frames + 1
                        /\ gen' = "at_yield"
                        /\ raw_frame' = frame_raw
                        /\ yielded' = Append(yielded, frame_raw)
                   ELSE /\ gen' = IF FramesReached THEN "reading"
                                  ELSE "splitting"
                        /\ UNCHANGED <<captured_frames, raw_frame, yielded>>
       ELSE /\ gen' = "reading"
            /\ UNCHANGED <<buffer, captured_frames, raw_frame, yielded>>
    /\ UNCHANGED <<parseVars, envVars, mainVars, pos, port, clock, start_time,
                   conVars, csvVars>>

\* after the yield: if max_frames is not None and captured_frames >=
\* max_frames: break
Serial_Resume ==
    /\ pc = "stream" /\ args.mode = "serial" /\ gen = "resume"
    /\ gen' = IF FramesReached THEN "reading" ELSE "splitting"
    /\ UNCHANGED <<parseVars, envVars, mainVars, pos, buffer, port,
                   captured_frames, clock, start_time, raw_frame, yielded,
                   conVars, csvVars>>

(***************************************************************************)
(* Failures in the consumer while the generator is suspended at its yield, *)
(* and the end of the process                                              *)
(***************************************************************************)
\* KeyboardInterrupt raised in stream_frames_to_csv: nothing catches it
Consume_Interrupt ==
    /\ pc = "stream" /\ gen = "at_yield"
    /\ Escapes("KeyboardInterrupt")
    /\ UNCHANGED <<parseVars, envVars, genVars, conVars, fault_columns,
                   csv_header, csv_rows, row_source>>

\* writer.write_frame raises OSError (the disk is full, the file is gone)
Consume_WriteFails ==
    /\ pc = "stream" /\ gen = "at_yield"
    /\ \E frame \in {parse_raw_frame(raw_frame)} :
          /\ frame.kind = "ok"
          /\ max_fault_count' =
                Max(max_fault_count, Len(frame.frame["fault_values"]))
    /\ source_index' = source_index + 1
    /\ parsed_count' = parsed_count + 1
    /\ Escapes("OSError")
    /\ UNCHANGED <<parseVars, envVars, genVars, skipped_count, warnings,
                   fault_columns, csv_header, csv_rows, row_source>>

\* The interpreter exits.  Nothing in main() closes the generator: one still
\* suspended at its yield (the consumer raised) is closed by CPython when the
\* traceback that holds main()'s frame is released, which raises
\* GeneratorExit at the yield and runs the finally clause.
Process_Exit ==
    /\ pc = "exit"
    /\ pc' = "ended"
    /\ IF gen = "at_yield"
       THEN /\ gen' = "done"
            /\ port' = Finally(port)
       ELSE UNCHANGED <<gen, port>>
    /\ UNCHANGED <<parseVars, envVars, exit_code, raised, pos, buffer,
                   captured_frames, clock, start_time, raw_frame, yielded,
                   conVars, csvVars>>

(***************************************************************************)
(* The splitters alone, on short texts cut into chunks in every way: up to *)
(* MaxSpans spans, each a payload and a marker, and a tail without marker. *)
(***************************************************************************)
\* most marker-terminated spans of a text
MaxSpans == 2

\* largest chunk of a read
MaxChunk == 3

Payloads == {<<>>, <<"x">>, <<" ", "x", ";", " ">>}

Markers == {FRAME_END_MARKER, <<"E", "N", "D", "\r", "\n", "D", "a", "t", "a">>}

Tails == {<<>>, <<"y", "E", "N", "D">>}

SpanKinds == {p \o m : p \in Payloads, m \in Markers}

RECURSIVE Concat(_, _)
Concat(parts, n) ==
    IF n = 0 THEN <<>> ELSE Concat(parts, n - 1) \o parts[n]

SplitTexts ==
    {Concat(spans, Len(spans)) \o t :
        spans \in SeqsUpTo(SpanKinds, MaxSpans), t \in Tails}

SplitArgs(mode, chunk) ==
    [mode |-> mode, strict |-> FALSE, input_ok |-> TRUE, chunk_chars |-> chunk,
     duration |-> None, max_frames |-> None, fault_names |-> 1]

InitSplit ==
    /\ ParserIdle
    /\ \E text \in SplitTexts, mode \in {"file", "serial"}, chunk \in 1..MaxChunk :
          /\ mode = "serial" => chunk = MaxChunk
          /\ RunStart(SplitArgs(mode, chunk), <<>>, text,
                      IF mode = "serial" THEN 1..Len(text) ELSE {})

\* a serial read returns at most MaxChunk bytes here
Serial_ReadSome ==
    /\ Serial_Read
    /\ pos' - pos <= args.chunk_chars

NextSplit ==
    \/ Main_Setup
    \/ File_Open
    \/ File_Read
    \/ File_Split
    \/ Serial_Open
    \/ Serial_ReadSome
    \/ Serial_Split
    \/ Serial_Resume
    \/ Serial_Interrupt
    \/ Consume
    \/ Main_Finish

SpecSplit == InitSplit /\ [][NextSplit]_vars

(***************************************************************************)
(* A capture from a serial port                                            *)
(***************************************************************************)
\* The frames of the captured streams: a well-formed frame, and two short
\* damaged ones (the frame ending after the value of TOTDEV, and after the
\* label itself)
EndsAfterValue == Mut("cut", 2, NoToken, "", 0)

SerialKinds ==
    {[k |-> 0, mut |-> NoMut], [k |-> 0, mut |-> EndsAfterValue],
     [k |-> 0, mut |-> EndsAfterLabel]}

DurationArgs == {None, 1}

MaxFramesArgs == {None, 0, 1}

SerialArgs(strict, ok, duration, max_frames) ==
    [mode |-> "serial", strict |-> strict, input_ok |-> ok,
     chunk_chars |-> 0, duration |-> duration, max_frames |-> max_frames,
     fault_names |-> 1]

\* Where a read of the stream may end: in the middle of each marker and
\* after each frame's line end
RECURSIVE FrameCuts(_, _)
FrameCuts(frames, n) ==
    IF n = 0 THEN {}
    ELSE LET end == Len(StreamText(frames, n))
         IN  FrameCuts(frames, n - 1) \cup {end - 5, end}

InitSerial ==
    /\ ParserIdle
    /\ \E frames \in SeqsUpTo(SerialKinds, MaxFrames), strict \in BOOLEAN,
          ok \in BOOLEAN, d \in DurationArgs, m \in MaxFramesArgs :
          /\ ok \/ (frames = <<>> /\ d = None /\ m = None)
          /\ RunStart(SerialArgs(strict, ok, d, m), frames,
                      StreamText(frames, Len(frames)),
                      FrameCuts(frames, Len(frames)))

NextSerial ==
    \/ Main_Setup
    \/ Serial_Open
    \/ Serial_Stop
    \/ Serial_Read
    \/ Serial_Split
    \/ Serial_Resume
    \/ Serial_Interrupt
    \/ Consume
    \/ Consume_Interrupt
    \/ Consume_WriteFails
    \/ Process_Exit
    \/ Main_Finish

SpecSerial == InitSerial /\ [][NextSerial]_vars

(***************************************************************************)
(* The same capture when the program keeps running and time passes: every  *)
(* step of main(), of the generator and of the consumer is taken when it   *)
(* stays possible, and the reads do not all return within the same clock   *)
(* value.  Interrupts and write failures may or may not happen.            *)
(***************************************************************************)
\* a read during which time passes
Serial_ReadLater == Serial_Read /\ clock' > clock

\* the states where the inner loop has a step to take, and those where the
\* consumer holds a frame: Serial_Split and Consume are enabled in exactly
\* these states
AtSplit == pc = "stream" /\ args.mode = "serial" /\ gen = "splitting"

AtYield == pc = "stream" /\ gen = "at_yield"

\* weak fairness of every step of the program (for Serial_Split and
\* Consume written out with the states where they are enabled), strong
\* fairness of the passing of time: the generator is at its read again
\* and again, and time does not stand still for ever
FairSerial ==
    /\ WF_vars(Main_Setup)
    /\ WF_vars(Serial_Open)
    /\ WF_vars(Serial_Stop)
    /\ WF_vars(Serial_Resume)
    /\ WF_vars(Main_Finish)
    /\ WF_vars(Process_Exit)
    /\ ([]<>~AtSplit \/ []<><<Serial_Split>>_vars)
    /\ ([]<>~AtYield \/ []<><<Consume>>_vars)
    /\ SF_vars(Serial_ReadLater)

SpecCapture == InitSerial /\ [][NextSerial]_vars /\ FairSerial

(***************************************************************************)
(* Claims                                                                  *)
(***************************************************************************)
Parsed == p_result.kind # "none"

\* C1: every parse of a token sequence ends with a Parsed Frame or with a
\* FrameParseError, also when the frame ends right after a single-value
\* label; no other exception escapes parse_raw_frame.
C1_OnlyFrameParseError ==
    Parsed => p_result.kind \in {"ok", "FrameParseError"}

\* The short sections of C9: the last d values of a section removed with the
\* rest of the frame following, or the frame cut inside the section.
ShortSection(c, s) ==
    \/ c.mut.kind = "shorten" /\ c.mut.section = s
    \/ /\ c.mut.kind = "cut"
       /\ c.mut.at >= LabelPos[s] + 1
       /\ c.mut.at < LabelPos[s] + 1 + CELL_COUNT

\* C9 as claimed: a section holding fewer than 14 values, the rest of the
\* frame following, fails with a FrameParseError that names the section and
\* the required count 14.
C9_ShortSectionNamesCount ==
    \A s \in SectionNames :
        (Parsed /\ p_case.mut.kind = "shorten" /\ p_case.mut.section = s)
        => /\ p_result.kind = "FrameParseError"
           /\ p_result.err.what = "truncated"
           /\ p_result.err.field.name = s
           /\ p_result.err.count = CELL_COUNT

\* C9 amended: a section holding fewer than 14 values fails with a
\* FrameParseError.  It names the section and the count 14 exactly when
\* fewer than 14 tokens follow the section label (the frame ends inside the
\* section); when the rest of the frame follows, it names the first missing
\* cell, such as SOC[11], and the raw token found in its place.
C9_ShortSectionFails ==
    \A s \in SectionNames :
        (Parsed /\ ShortSection(p_case, s))
        => LET tokens == CaseTokens(p_case)
               first == LabelPos[s] + 1
               present == IF p_case.mut.kind = "shorten"
                          THEN CELL_COUNT - p_case.mut.d
                          ELSE Len(tokens) - first
           IN  /\ p_result.kind = "FrameParseError"
               /\ IF Len(tokens) - first < CELL_COUNT
                  THEN /\ p_result.err.what = "truncated"
                       /\ p_result.err.field = FieldLabel(s, 0)
                       /\ p_result.err.count = CELL_COUNT
                  ELSE /\ p_result.err.what \in {"not_an_integer", "not_a_float"}
                       /\ p_result.err.field = FieldLabel(s, present + 1)
                       /\ p_result.err.token = tokens[first + present + 1]
                       /\ p_result.err.count = 0

\* C9 witness: a SOC section of 10 values with the rest of the frame after
\* it was parsed, and the error is about SOC[11] holding "Vcell:"
C9_Witness ==
    /\ Parsed
    /\ p_case.mut.kind = "shorten" /\ p_case.mut.section = "SOC"
    /\ p_case.mut.d = 4
    /\ p_result.err.field = FieldLabel("SOC", 11)
    /\ p_result.err.token = L_Vcell

\* C10: a token sequence that matches the grammar, with k >= 0 fault values,
\* parses, and the record holds the values of the input in encounter order:
\* 14 values per fixed section and the k values before "VTREF".
C10_GrammarRoundTrip ==
    (Parsed /\ p_case.mut.kind = "none")
    => /\ p_result.kind = "ok"
       /\ \A f \in FrameFields :
             p_result.frame[f] = FrameValues(p_case.k, 0)[f]
       /\ Len(p_result.frame["fault_values"]) = p_case.k
       /\ \A s \in {"soc_values", "vcell_values", "temp_values", "bal_values"} :
             Len(p_result.frame[s]) = CELL_COUNT

\* C10 witness: a well-formed frame with no fault value parsed to a record
\* with an empty fault_values
C10_Witness ==
    /\ p_case.mut.kind = "none" /\ p_case.k = 0
    /\ p_result.kind = "ok"
    /\ p_result.frame["fault_values"] = <<>>
    /\ p_result.frame["soc_values"][CELL_COUNT] = 50 + CELL_COUNT

(***************************************************************************)
(* Claims about a run on a file                                            *)
(***************************************************************************)
Indices(q) == [i \in 1..Len(q) |-> i]

\* The positions in the stream of the well-formed and of the damaged frames
WellFormedAt(frames) == SelectSeq(Indices(frames), LAMBDA i : WellFormed(frames[i]))

MalformedAt(frames) == SelectSeq(Indices(frames), LAMBDA i : ~WellFormed(frames[i]))

RunEnded == pc = "exit"

\* C2: under the lenient policy every malformed frame is skipped with one
\* warning carrying its source ordinal and the run goes on to the next
\* frame: it ends with one row per well-formed frame and skipped_count equal
\* to the number of malformed frames.
C2_LenientSkipsEveryMalformed ==
    (RunEnded /\ ~args.strict /\ args.input_ok)
    => /\ raised = "none"
       /\ Len(csv_rows) = Len(WellFormedAt(sent))
       /\ skipped_count = Len(MalformedAt(sent))
       /\ [i \in 1..Len(warnings) |-> warnings[i].source_index]
             = MalformedAt(sent)

\* C3: under the strict policy a run whose input holds a malformed frame
\* aborts at the first such frame with no data row written, also when
\* well-formed frames came before it.
C3_StrictAbortWritesNoRow ==
    (RunEnded /\ args.strict /\ MalformedAt(sent) # <<>>)
    => /\ raised # "none"
       /\ exit_code = 1
       /\ source_index = MalformedAt(sent)[1]
       /\ csv_rows = <<>>

\* C4: the k-th data row carries frame_index k and comes from the k-th
\* well-formed frame of the stream, whatever was skipped in between.
C4_RowsInArrivalOrder ==
    /\ Len(csv_rows) <= Len(WellFormedAt(sent))
    /\ row_source = SubSeq(WellFormedAt(sent), 1, Len(csv_rows))
    /\ \A k \in 1..Len(csv_rows) :
          LET from == WellFormedAt(sent)[k]
              v == FrameValues(sent[from].k, from)
          IN  /\ csv_rows[k][1] = IntCell(k)
              /\ csv_rows[k][2] = IntCell(v.total_devices)
              /\ csv_rows[k][5] = IntCell(v.soc_values[1])
    /\ (RunEnded /\ raised = "none" /\ args.input_ok)
          => Len(csv_rows) = Len(WellFormedAt(sent))

\* C4 witness: a run that skipped its first frame and wrote the second as
\* row 1
C4_Witness ==
    /\ RunEnded /\ raised = "none"
    /\ skipped_count = 1
    /\ row_source = <<2>>
    /\ csv_rows[1][1] = IntCell(1)

FaultColumnsOf(header) ==
    SelectSeq(header, LAMBDA c : c.stem \in {"fault", "fault_named"})

RECURSIVE MaxFaultsSent(_, _)
MaxFaultsSent(frames, n) ==
    IF n = 0 THEN 0
    ELSE Max(MaxFaultsSent(frames, n - 1),
             IF WellFormed(frames[n]) THEN frames[n].k ELSE 0)

\* C7 as claimed: the header has as many fault columns as the longest
\* fault_values of any parsed frame.
C7_HeaderFollowsMaxFaults ==
    (RunEnded /\ raised = "none" /\ parsed_count > 0)
    => Len(FaultColumnsOf(csv_header)) = MaxFaultsSent(sent, Len(sent))

\* C7 amended: the number of fault columns is fixed when the header is
\* written, before any frame is read: the number of fault names found in
\* the C source, or 187 when none is found.  The longest fault_values seen
\* is only counted in max_fault_count.
C7_HeaderFixedBeforeCapture ==
    /\ pc # "start"
          => /\ Len(FaultColumnsOf(csv_header)) =
                   (IF args.fault_names > 0 THEN args.fault_names
                    ELSE DEFAULT_FAULT_COUNT)
             /\ Len(csv_header) = 4 + 4 * CELL_COUNT + 7 + Len(fault_columns) + 1
             /\ Len(fault_columns) = Len(FaultColumnsOf(csv_header))
    /\ max_fault_count = MaxFaultsSent(sent, IF Len(row_source) = 0 THEN 0
                                             ELSE row_source[Len(row_source)])

\* C7 witness: a finished run whose frames carried more fault values than
\* the header has fault columns
C7_Witness ==
    /\ RunEnded /\ raised = "none"
    /\ max_fault_count = MaxFaults
    /\ Len(FaultColumnsOf(csv_header)) = 1

\* C8: every data row has as many cells as the header, 4 + 4*14 + 7 + N + 1:
\* the first N fault values in order, or all of them and then empty cells up
\* to N, and vtref_v last.
C8_RowsMatchHeader ==
    \A k \in 1..Len(csv_rows) :
        LET from == WellFormedAt(sent)[k]
            v == FrameValues(sent[from].k, from)
            row == csv_rows[k]
            N == Len(fault_columns)
            first == 4 + 4 * CELL_COUNT + 7
        IN  /\ Len(row) = Len(csv_header)
            /\ Len(row) = first + N + 1
            /\ \A j \in 1..N :
                  row[first + j] = IF j <= Len(v.fault_values)
                                   THEN IntCell(v.fault_values[j])
                                   ELSE EmptyCell
            /\ row[Len(row)] = v.vtref_v

\* C8 witness: with one fault column, a row of a frame without fault values
\* (an empty cell) and a row of a frame with more than one (cut to the first)
C8_Witness ==
    /\ Len(fault_columns) = 1
    /\ Len(csv_rows) = 2
    /\ csv_rows[1][4 + 4 * CELL_COUNT + 7 + 1] = EmptyCell
    /\ sent[2].k = MaxFaults
    /\ csv_rows[2][4 + 4 * CELL_COUNT + 7 + 1].cls = "int"

\* C12: the exit code is 0 exactly when the run ends with at least one frame
\* parsed, and 1 on total failure: the input cannot be opened, no frame is
\* extracted or none parses, or a malformed frame is met under the strict
\* policy.
C12_ExitCode ==
    RunEnded
    => exit_code = (IF /\ args.input_ok
                       /\ WellFormedAt(sent) # <<>>
                       /\ ~(args.strict /\ MalformedAt(sent) # <<>>)
                    THEN 0 ELSE 1)

(***************************************************************************)
(* Claims about the splitters                                              *)
(***************************************************************************)
\* Where the marker occurs in a text, in increasing order
MarkerAt(text) ==
    {i \in 1..Len(text) :
        /\ i + Len(FRAME_END_MARKER) - 1 <= Len(text)
        /\ SubSeq(text, i, i + Len(FRAME_END_MARKER) - 1) = FRAME_END_MARKER}

SortedSeq(S) ==
    [j \in 1..Cardinality(S) |->
        CHOOSE x \in S : Cardinality({y \in S : y < x}) = j - 1]

NonEmpty(s) == s # <<>>

\* The frames of an uncut text: the trimmed, non-empty spans that precede
\* each occurrence of the marker
RefFrames(text) ==
    LET occ == SortedSeq(MarkerAt(text))
        from(j) == IF j = 1 THEN 1 ELSE occ[j - 1] + Len(FRAME_END_MARKER)
        spans == [j \in 1..Len(occ) |->
                     StrStrip(SubSeq(text, from(j), occ[j] - 1))]
    IN  SelectSeq(spans, NonEmpty)

NotLineEnd(c) == c \notin {"\r", "\n"}

\* The text read so far, as one piece and without its line ends
Seen == SelectSeq(SubSeq(input, 1, pos), NotLineEnd)

IsPrefix(p, q) == Len(p) <= Len(q) /\ p = SubSeq(q, 1, Len(p))

\* C5: however the text is cut into chunks, the frames yielded are those of
\* the uncut text: at every moment they are the first frames of the text
\* read so far (so none is yielded before its marker was read, and the text
\* after the last marker is not yielded), each time the splitter goes back
\* to reading it has yielded all of them, and at the end of a file it has
\* yielded the frames of the whole text.
C5_SplitIndependentOfChunking ==
    /\ IsPrefix(yielded, RefFrames(Seen))
    /\ gen = "reading" => yielded = RefFrames(Seen)
    /\ (args.mode = "file" /\ gen = "done" /\ args.input_ok)
          => yielded = RefFrames(SelectSeq(input, NotLineEnd))

\* C5 witness: a file read one character at a time gave two frames although
\* one of its markers has a line end inside
C5_Witness ==
    /\ args.mode = "file" /\ args.chunk_chars = 1
    /\ gen = "done"
    /\ Len(yielded) = 2
    /\ Contains(input, <<"D", "\r", "\n", "D">>)

C13_DurationEnds ==
    /\ (args.duration # None /\ gen = "reading") ~> (gen = "done")
    /\ [][(gen = "reading" /\ DurationReached) => gen' = "done"]_vars
    /\ [][(gen = "reading" /\ gen' = "reading")
            => /\ raised' = "none" /\ port' = "open"
               /\ <<pos, buffer, yielded, captured_frames>>' =
                     <<pos, buffer, yielded, captured_frames>>]_vars

\* C13 witness: frames were waiting, every read returned no byte, and the
\* capture ended when the duration was reached
C13_Witness ==
    /\ args.duration # None /\ sent # <<>>
    /\ gen = "done" /\ port = "closed"
    /\ pos = 0 /\ clock - start_time >= args.duration
    /\ raised = "none"

\* C14: with max_frames = m the generator never yields more than m frames,
\* also when one read completes several frames; the frames counted are the
\* non-empty raw frames yielded, parsed or not; and once m frames are
\* captured no step reads from the port again.
C14_MaxFramesBound ==
    /\ [](args.max_frames # None
           => /\ Len(yielded) <= args.max_frames
              /\ captured_frames = Len(yielded)
              /\ source_index <= captured_frames)
    /\ [][(args.max_frames # None /\ captured_frames >= args.max_frames)
            => (pos' = pos /\ clock' = clock)]_vars

\* C14 witness: one read brought two frames, the first did not parse and
\* was counted, the generator returned and the second frame stayed in the
\* buffer
C14_Witness ==
    /\ args.max_frames = 1 /\ Len(sent) = 2
    /\ gen = "done" /\ port = "closed"
    /\ Len(yielded) = 1 /\ captured_frames = 1
    /\ parsed_count = 0
    /\ Contains(buffer, FRAME_END_MARKER)

(***************************************************************************)
(* Claims about the integer fields                                         *)
(***************************************************************************)
\* The integer field at the p-th token of a frame with k fault values, by
\* its label in the error messages, and the frame field that holds it
IntFieldAt(k, p) ==
    LET soc == LabelPos["SOC"] + 1
        bal == LabelPos["BAL"] + 1
        faults == FrameLen(k) - 2 - k
    IN  CASE p = 2 -> [label |-> FieldLabel("TOTDEV", 0), field |-> "total_devices"]
          [] p = 4 -> [label |-> FieldLabel("CHAIN", 0), field |-> "chain_id"]
          [] p = 6 -> [label |-> FieldLabel("DEV", 0), field |-> "device_id"]
          [] p > soc /\ p <= soc + CELL_COUNT ->
                [label |-> FieldLabel("SOC", p - soc), field |-> "soc_values"]
          [] p > bal /\ p <= bal + CELL_COUNT ->
                [label |-> FieldLabel("BAL", p - bal), field |-> "bal_values"]
          [] p > faults /\ p <= faults + k ->
                [label |-> FieldLabel("FAULTS", p - faults),
                 field |-> "fault_values"]
          [] OTHER -> [label |-> NoField, field |-> ""]

\* An integer literal: digits after an optional sign
IsIntegerLiteral(t) ==
    LET body == Unsigned(t)
    IN  Len(body) > 0 /\ \A i \in 1..Len(body) : IsDigit(body[i])

\* A float literal with zero fractional part: digits, a point and only 0s
\* after it
ZeroFractionLiteral(t) ==
    LET body == Unsigned(t)
    IN  \E dot \in 1..Len(body) :
            /\ body[dot] = "."
            /\ Len(body) > 1
            /\ \A i \in 1..(dot - 1) : IsDigit(body[i])
            /\ \A i \in (dot + 1)..Len(body) : body[i] = "0"

\* The integer such a literal denotes
LiteralValue(t) ==
    LET body == Unsigned(t)
        digits == SelectSeq(body, LAMBDA c : c # ".")
        ip == IF ZeroFractionLiteral(t)
              THEN SubSeq(body, 1, (CHOOSE i \in 1..Len(body) : body[i] = ".") - 1)
              ELSE digits
    IN  SignOf(t) * DigitsToNat(ip)

\* The frames with one token replaced at an integer field
IntFieldReplaced ==
    /\ Parsed
    /\ p_case.mut.kind = "replace"
    /\ IntFieldAt(p_case.k, p_case.mut.at).field # ""

\* C11: at every integer field a token is accepted iff it is an integer
\* literal or a float literal with zero fractional part, and the field then
\* holds that integer; any other token fails with a FrameParseError that
\* cites the field label and the raw token.
C11_IntegerPolicy ==
    IntFieldReplaced
    => LET t == p_case.mut.token
           at == IntFieldAt(p_case.k, p_case.mut.at)
           held == p_result.frame[at.field]
       IN  IF IsIntegerLiteral(t) \/ ZeroFractionLiteral(t)
           THEN /\ p_result.kind = "ok"
                /\ LiteralValue(t) =
                      (IF at.label.cell = 0 THEN held ELSE held[at.label.cell])
           ELSE /\ p_result.kind = "FrameParseError"
                /\ p_result.err = NotAnInteger(at.label, t)
====
